---- MODULE Spec2Model ----
(***************************************************************************)
(* A model of dell-monitor-tool (src/main.go): a single-threaded CLI that  *)
(* identifies monitors over I2C (EDID), resolves features from a JSON      *)
(* configuration and writes / reads DDC-CI VCP frames.                     *)
(*                                                                         *)
(* Strings the program converts (value labels, hex strings, monitor names) *)
(* are sequences of ASCII codes, so that ToLower, ToUpper, TrimSpace and   *)
(* the hex scanner are computed and not assumed.  Map keys that the        *)
(* program only compares (feature names, preset names, bus paths) are      *)
(* TLA+ strings.                                                           *)
(***************************************************************************)
EXTENDS Integers, Sequences, FiniteSets, TLC

\* ------------------------------------------------------------ constants
I2C_SLAVE == 1795
DDC_ADDR == 55
EDID_ADDR == 80

\* ------------------------------------------------------------- bytes
Byte == 0..255

\* The recursions of this module are written as functions: an argument is
\* a value, computed once, when the function is applied.
XorBitsOf[a \in Nat, b \in Nat, n \in Nat] ==
  IF n = 0 THEN 0
  ELSE (((a % 2) + (b % 2)) % 2) + 2 * XorBitsOf[a \div 2, b \div 2, n - 1]

XorBits(a, b, n) == XorBitsOf[a, b, n]

\* The ^ of two bytes.
Xor(a, b) == XorBits(a, b, 8)

XorFoldOf[acc \in Nat, data \in Seq(Nat)] ==
  IF data = <<>> THEN acc ELSE XorFoldOf[Xor(acc, Head(data)), Tail(data)]

XorFold(acc, data) == XorFoldOf[acc, data]

\* A checksum folded from the seed 0.
getChecksumNoSeed(data) == XorFold(0, data)

\* getChecksum: 0x6E XORed with every byte of data.
getChecksum(data) == XorFold(110, data)

\* ------------------------------------------------------------ strings
IsUpper(c) == c >= 65 /\ c <= 90
IsLower(c) == c >= 97 /\ c <= 122

\* strings.ToLower / strings.ToUpper on ASCII text.
ToLower(s) == [i \in 1..Len(s) |-> IF IsUpper(s[i]) THEN s[i] + 32 ELSE s[i]]
ToUpper(s) == [i \in 1..Len(s) |-> IF IsLower(s[i]) THEN s[i] - 32 ELSE s[i]]

\* unicode.IsSpace on ASCII text: \t \n \v \f \r and space.  (The model's
\* names are ASCII; the two-byte spaces U+0085 and U+00A0 do not occur.)
IsSpace(c) == c \in {9, 10, 11, 12, 13, 32}

TrimLeftOf[s \in Seq(Nat)] ==
  IF s # <<>> /\ IsSpace(Head(s)) THEN TrimLeftOf[Tail(s)] ELSE s

TrimLeft(s) == TrimLeftOf[s]

TrimRightOf[s \in Seq(Nat)] ==
  IF s # <<>> /\ IsSpace(s[Len(s)]) THEN TrimRightOf[SubSeq(s, 1, Len(s) - 1)] ELSE s

TrimRight(s) == TrimRightOf[s]

\* strings.TrimSpace.
TrimSpace(s) == TrimRight(TrimLeft(s))

\* bytes.Contains / strings.Contains.
Contains(s, sub) ==
  \E i \in 0..(Len(s) - Len(sub)) :
    \A k \in 1..Len(sub) : s[i + k] = sub[k]

\* ----------------------------------------------------------- hex scan
IsHexDigit(c) ==
  (c >= 48 /\ c <= 57) \/ (c >= 65 /\ c <= 70) \/ (c >= 97 /\ c <= 102)

HexVal(c) ==
  IF c <= 57 THEN c - 48 ELSE IF c <= 70 THEN c - 55 ELSE c - 87

SkipSpaceOf[s \in Seq(Nat)] ==
  IF s # <<>> /\ Head(s) \in {9, 13, 32} THEN SkipSpaceOf[Tail(s)] ELSE s

SkipSpace(s) == SkipSpaceOf[s]

HexTokenOf[s \in Seq(Nat)] ==
  IF s # <<>> /\ IsHexDigit(Head(s)) THEN <<Head(s)>> \o HexTokenOf[Tail(s)] ELSE <<>>

HexToken(s) == HexTokenOf[s]

StripZerosOf[s \in Seq(Nat)] ==
  IF s # <<>> /\ Head(s) = 48 THEN StripZerosOf[Tail(s)] ELSE s

StripZeros(s) == StripZerosOf[s]

HexNumberOf[s \in Seq(Nat)] ==
  IF s = <<>> THEN 0 ELSE 16 * HexNumberOf[SubSeq(s, 1, Len(s) - 1)] + HexVal(s[Len(s)])

HexNumber(s) == HexNumberOf[s]

ScanFail == 0 - 1

\* The %x verb of fmt.Sscanf into an unsigned integer of `bits` bits: skip
\* blanks, take the longest run of hex digits (none: "expected integer"),
\* fail when the number does not fit.  ScanFail leaves the target unchanged.
ScanHex(s, bits) ==
  LET tok == HexToken(SkipSpace(s))
      sig == StripZeros(tok)
  IN  IF tok = <<>> THEN ScanFail
      ELSE IF 4 * Len(sig) > bits THEN ScanFail
      ELSE HexNumber(sig)

\* fmt.Sscanf(s, "0x%x", &v): the literal 0x must match the input.
ScanPrefixed(s, bits) ==
  IF Len(s) >= 2 /\ s[1] = 48 /\ s[2] = 120
    THEN ScanHex(SubSeq(s, 3, Len(s)), bits)
    ELSE ScanFail

ParseHexBits(s, bits) ==
  LET a == ScanPrefixed(s, bits)
      v1 == IF a = ScanFail THEN 0 ELSE a
      b == ScanHex(s, bits)
  IN  IF v1 # 0 THEN v1 ELSE IF b = ScanFail THEN 0 ELSE b

parseHex(s) == ParseHexBits(s, 8)
parseHex16(s) == ParseHexBits(s, 16)

\* ------------------------------------------------------- DDC-CI frames
\* setVCP's data: the six bytes and their checksum.
SetFrame(vcp, value) ==
  LET data == <<81, 132, 3, vcp, (value \div 256) % 256, value % 256>>
  IN  Append(data, getChecksum(data))

\* getVCP's req.
GetFrame(vcp) ==
  LET req == <<81, 130, 1, vcp>>
  IN  Append(req, getChecksum(req))

\* make([]byte, 16): the receive buffer of one read cycle.
ReplyBufLen == 16

\* The buffer after f.Read stored the n bytes of `bytes` into a fresh
\* zeroed buffer.
ReplyBuf(bytes) ==
  [k \in 1..ReplyBufLen |-> IF k <= Len(bytes) THEN bytes[k] ELSE 0]

Min(S) == CHOOSE x \in S : \A y \in S : x <= y

\* The offsets the marker scan matches: i < n-5 with reply[i] = 0x02 and
\* reply[i+2] = vcp (Go offsets; buf is 1-based).
MarkerHits(buf, n, vcp) ==
  {i \in 0..(n - 6) : buf[i + 1] = 2 /\ buf[i + 3] = vcp}

\* "index out of range" on the 16-byte buffer.
InBuf(i) == i >= 0 /\ i < ReplyBufLen

Word(hi, lo) == hi * 256 + lo

NoValue == [kind |-> "none", value |-> 0]
Panic == [kind |-> "panic", value |-> 0]
Value(v) == [kind |-> "value", value |-> v]

MinReplyLen == 10

\* A scan that keeps the last match.
LastHit(hits) == CHOOSE x \in hits : \A y \in hits : x >= y

\* Lines 124-127: the scan returns at its first match.
FirstHit(hits) == Min(hits)

\* A parse that tries the fixed offsets of a 0x6E-led reply first.
ParseReplyFallbackFirst(buf, n, readOk, vcp) ==
  IF ~(readOk /\ n >= MinReplyLen) THEN NoValue
  ELSE IF buf[1] = 110 THEN Value(Word(buf[9], buf[10]))
  ELSE LET hits == MarkerHits(buf, n, vcp)
       IN  IF hits = {} THEN NoValue
           ELSE LET i == FirstHit(hits)
                IN  IF InBuf(i + 6) /\ InBuf(i + 7)
                      THEN Value(Word(buf[i + 7], buf[i + 8]))
                      ELSE Panic

\* One read cycle's parse of getVCP: the body of `if err == nil && n >= 10`.
\* kind "value": the call returns value; "none": the cycle accepts nothing;
\* "panic": the indexing reply[i+6], reply[i+7] leaves the buffer and the
\* runtime panics.
ParseReply(buf, n, readOk, vcp) ==
  IF ~(readOk /\ n >= MinReplyLen) THEN NoValue
  ELSE LET hits == MarkerHits(buf, n, vcp)
       IN  IF hits # {}
             THEN LET i == FirstHit(hits)
                  IN  IF InBuf(i + 6) /\ InBuf(i + 7)
                        THEN Value(Word(buf[i + 7], buf[i + 8]))
                        ELSE Panic
           ELSE IF buf[1] = 110 THEN Value(Word(buf[9], buf[10]))
           ELSE NoValue

\* The offsets of reply that one read cycle's parse indexes (Go offsets):
\* reply[i] and, when it is 0x02, reply[i+2], for each i the scan reaches;
\* reply[i+6], reply[i+7] at the match; reply[0] and, when it is 0x6E,
\* reply[8], reply[9] when the scan matched nothing.
ReplyReads(buf, n, readOk, vcp) ==
  IF ~(readOk /\ n >= MinReplyLen) THEN {}
  ELSE LET hits == MarkerHits(buf, n, vcp)
           last == IF hits # {} THEN FirstHit(hits) ELSE n - 6
           scan == UNION {{i} \cup (IF buf[i + 1] = 2 THEN {i + 2} ELSE {}) : i \in 0..last}
       IN  scan \cup (IF hits # {} THEN {FirstHit(hits) + 6, FirstHit(hits) + 7}
                      ELSE {0} \cup (IF buf[1] = 110 THEN {8, 9} ELSE {}))

\* ---------------------------------------------------------------- EDID
EdidLen == 128
DescLen == 18

N_U4021QW == <<85, 52, 48, 50, 49, 81, 87>>
N_Dell_U4021QW == <<68, 101, 108, 108, 32, 85, 52, 48, 50, 49, 81, 87>>
N_DELL == <<68, 69, 76, 76>>
N_DELL_Monitor == <<68, 69, 76, 76, 32, 77, 111, 110, 105, 116, 111, 114>>
N_Manual == <<77, 97, 110, 117, 97, 108>>

\* edid[a:b] of Go (0-based, b exclusive).
Slice(edid, a, b) == SubSeq(edid, a + 1, b)

IsNameDesc(edid, j) ==
  edid[j + 1] = 0 /\ edid[j + 2] = 0 /\ edid[j + 3] = 0 /\ edid[j + 4] = 252

\* The offsets the descriptor loop visits: for j := 54; j < 108; j += 18.
DescOffsets == {j \in 54..107 : (j - 54) % DescLen = 0}

\* getMonitorName's name extraction from the 128 bytes read.
EdidName(edid) ==
  LET found == {j \in DescOffsets : IsNameDesc(edid, j)}
      name == IF found = {} THEN <<>>
              ELSE TrimSpace(Slice(edid, Min(found) + 5, Min(found) + DescLen))
  IN  IF name # <<>> THEN name
      ELSE IF Contains(edid, N_U4021QW) THEN N_Dell_U4021QW
      ELSE IF Contains(edid, N_DELL) THEN N_DELL_Monitor
      ELSE <<>>

\* ------------------------------------------------- configuration data
\* Value labels, hex strings and names, as ASCII.
L_off == <<111, 102, 102>>
L_OFF == <<79, 70, 70>>
L_on == <<111, 110>>
L_dp == <<100, 112>>
L_hdmi1 == <<104, 100, 109, 105, 49>>
L_HDMI1 == <<72, 68, 77, 73, 49>>
L_vga == <<118, 103, 97>>
L_up1 == <<117, 112, 49>>
H_0x60 == <<48, 120, 54, 48>>
H_0xE9 == <<48, 120, 69, 57>>
H_0xE8 == <<48, 120, 69, 56>>
H_E7 == <<69, 55>>
H_0x0f == <<48, 120, 48, 102>>
H_0x11 == <<48, 120, 49, 49>>
H_0x00 == <<48, 120, 48, 48>>
H_0x24 == <<48, 120, 50, 52>>
H_0xff00 == <<48, 120, 102, 102, 48, 48>>
N_DELL_U4021QW == <<68, 69, 76, 76, 32, 85, 52, 48, 50, 49, 81, 87>>
N_LG == <<76, 71, 32, 85, 76, 84, 82, 65, 87, 73, 68, 69>>
N_P2419 == <<80, 50, 52, 49, 57>>
N_DELL_P2419H == <<68, 69, 76, 76, 32, 80, 50, 52, 49, 57, 72>>

\* A Go map is a function on its keys; `v, ok := m[k]` is k \in DOMAIN m.
Map1(k, v) == [x \in {k} |-> v]
Join(f, g) ==
  [x \in (DOMAIN f) \cup (DOMAIN g) |-> IF x \in DOMAIN f THEN f[x] ELSE g[x]]

\* A MonitorConfig with all four features (monitors.json of a U4021QW).
CfgDell ==
  [model |-> N_Dell_U4021QW,
   match |-> N_U4021QW,
   features |->
     [f \in {"input_source", "pbp_mode", "pbp_sub_input", "usb_selection"} |->
        CASE f = "input_source" ->
               [vcp |-> H_0x60, values |-> Join(Map1(L_dp, H_0x0f), Map1(L_hdmi1, H_0x11))]
          [] f = "pbp_mode" ->
               [vcp |-> H_0xE9, values |-> Join(Map1(L_off, H_0x00), Map1(L_on, H_0x24))]
          [] f = "pbp_sub_input" ->
               [vcp |-> H_0xE8, values |-> Join(Map1(L_dp, H_0x0f), Map1(L_hdmi1, H_0x11))]
          [] f = "usb_selection" ->
               [vcp |-> H_E7, values |-> Map1(L_up1, H_0xff00)]],
   presets |->
     [p \in {"full", "divided", "work", "sub", "fullsub", "bad", "upper", "all"} |->
        CASE p = "full" ->
               Join(Map1("pbp_mode", L_off), Map1("input_source", L_hdmi1))
          [] p = "divided" ->
               Join(Map1("pbp_mode", L_on),
                    Join(Map1("input_source", L_dp), Map1("pbp_sub_input", L_hdmi1)))
          [] p = "work" -> Map1("input_source", L_dp)
          [] p = "sub" ->
               Join(Map1("pbp_sub_input", L_hdmi1), Map1("usb_selection", L_up1))
          [] p = "fullsub" ->
               Join(Map1("pbp_mode", L_off),
                    Join(Map1("pbp_sub_input", L_hdmi1), Map1("usb_selection", L_up1)))
          [] p = "bad" ->
               Join(Map1("pbp_mode", L_on),
                    Join(Map1("input_source", L_vga), Map1("usb_selection", L_up1)))
          [] p = "upper" ->
               Join(Map1("pbp_mode", L_OFF), Map1("input_source", L_HDMI1))
          [] p = "all" ->
               Join(Join(Map1("pbp_mode", L_on), Map1("input_source", L_hdmi1)),
                    Join(Map1("pbp_sub_input", L_dp), Map1("usb_selection", L_up1)))]]

\* The README's example: a config that defines input_source only.
CfgBasic ==
  [model |-> N_P2419,
   match |-> N_P2419,
   features |->
     Map1("input_source",
          [vcp |-> H_0x60, values |-> Join(Map1(L_dp, H_0x0f), Map1(L_hdmi1, H_0x11))]),
   presets |->
     [p \in {"work", "divided"} |->
        CASE p = "work" -> Map1("input_source", L_dp)
          [] p = "divided" ->
               Join(Map1("pbp_mode", L_on), Map1("input_source", L_hdmi1))]]

\* A 128-byte EDID block whose descriptor slot at offset `at` names the
\* monitor (0x0A-terminated, space-padded, as EDID stores it); at = 0 gives
\* a block without a name descriptor.
NamePad(name) ==
  [k \in 1..13 |-> IF k <= Len(name) THEN name[k]
                   ELSE IF k = Len(name) + 1 THEN 10 ELSE 32]

MkEdid(at, name) ==
  [k \in 1..EdidLen |->
     IF at > 0 /\ k > at /\ k <= at + DescLen
       THEN LET o == k - at - 1
            IN  IF o < 3 THEN 0
                ELSE IF o = 3 THEN 252
                ELSE IF o = 4 THEN 0
                ELSE NamePad(name)[o - 4]
       ELSE 0]

\* What answers at address 0x50 of a bus: "none" (the read fails) or a block.
EdidOf(kind) ==
  CASE kind = "dell" -> MkEdid(72, N_DELL_U4021QW)
    [] kind = "lg" -> MkEdid(54, N_LG)
    [] kind = "basic" -> MkEdid(90, N_DELL_P2419H)
    [] kind = "blank" -> MkEdid(0, <<>>)
    [] OTHER -> MkEdid(0, <<>>)

\* filepath.Glob("/dev/i2c-*"), sorted.
Buses == <<"/dev/i2c-3", "/dev/i2c-7">>

\* ------------------------------------------------------ run parameters
\* The parsed command line (main, flag.Parse).  bus is *busPtr; busFlag
\* tells -bus from the MONITOR_BUS default, which flag.NFlag does not count.
NoArgs ==
  [bus |-> "", busFlag |-> FALSE, status |-> FALSE, input |-> <<>>,
   pbp |-> <<>>, preset |-> "", scan |-> FALSE, verbose |-> FALSE]

B2N(b) == IF b THEN 1 ELSE 0

\* flag.NFlag(): the flags set on the command line.
NFlag(a) ==
  B2N(a.busFlag) + B2N(a.status) + B2N(a.input # <<>>) + B2N(a.pbp # <<>>)
    + B2N(a.preset # "") + B2N(a.scan) + B2N(a.verbose)

World(k3, k7) == [b \in {"/dev/i2c-3", "/dev/i2c-7"} |-> IF b = "/dev/i2c-3" THEN k3 ELSE k7]

Both == <<CfgBasic, CfgDell>>

Scn(a, c, w) == [args |-> a, configs |-> c, world |-> w]

\* The runs explored: a command line, the configuration list that
\* loadConfigs returned (empty when none was found) and the monitors present.
Scenarios ==
  {Scn([NoArgs EXCEPT !.preset = p], Both, World("lg", "dell")) :
       p \in {"full", "divided", "work", "sub", "fullsub", "bad", "upper", "all"}}
  \cup
  {Scn([NoArgs EXCEPT !.preset = p], Both, World("basic", "none")) :
       p \in {"work", "divided", "nosuch"}}
  \cup
  {Scn([NoArgs EXCEPT !.preset = "full"], c, World("lg", "none")) :
       c \in {<<>>, <<CfgDell>>}}
  \cup
  {Scn([NoArgs EXCEPT !.preset = "divided", !.bus = b, !.busFlag = f], <<CfgDell>>,
       World("none", "dell")) :
       b \in {"/dev/i2c-7", "/dev/i2c-9"}, f \in BOOLEAN}
  \cup
  {Scn([NoArgs EXCEPT !.input = i, !.pbp = q], Both, World("none", "dell")) :
       i \in {<<>>, L_HDMI1, L_vga}, q \in {<<>>, L_on}}
  \cup
  {Scn([NoArgs EXCEPT !.status = TRUE, !.input = L_dp], Both, World("basic", "dell")),
   Scn([NoArgs EXCEPT !.verbose = TRUE], Both, World("blank", "dell")),
   Scn([NoArgs EXCEPT !.scan = TRUE], Both, World("none", "dell")),
   Scn([NoArgs EXCEPT !.status = TRUE], <<CfgDell>>, World("none", "none")),
   Scn([NoArgs EXCEPT !.preset = "full", !.bus = "/dev/i2c-3", !.busFlag = TRUE],
       <<CfgDell>>, World("lg", "none"))}

\* ---------------------------------------------------------------- state
VARIABLES
  fnIn,       \* the input of a function examined on its own (NoInput in a run)
  fnOut,      \* what that function returned
  args,       \* the parsed command line
  configs,    \* []MonitorConfig as loaded (main's configs)
  world,      \* what is connected: bus -> kind of EDID answer
  pc,         \* the statement the program is at
  ret,        \* where the running call returns to
  fr,         \* the running call's parameters and locals
  result,     \* what the last call returned
  handles,    \* the open *os.File values: records [id, bus, addr]
  nextFd,     \* ids for os.OpenFile
  busIdx,     \* discoverDevices: index into the glob matches
  devices,    \* []Device
  target,     \* *Device chosen by main (NoTarget: nil)
  order,      \* the preset's application order
  oi,         \* index into order
  pending,    \* status: the features of the map iteration not yet visited
  code,       \* scan: the VCP code of the loop
  trace,      \* applyFeature calls, frame writes and sleeps, in order
  iolog,      \* per closed handle: its call, its address, its reads / writes
  opened,     \* the bus paths opened so far
  faults,     \* I/O failures injected so far
  stderr,     \* what was reported on standard error
  exitCode    \* the process's exit status (Running while it runs)

vars ==
  <<fnIn, fnOut, args, configs, world, pc, ret, fr, result, handles, nextFd, busIdx, devices,
    target, order, oi, pending, code, trace, iolog, opened, faults, stderr,
    exitCode>>

\* The most I/O failures one run injects.
MaxFaults == 3

Running == 0 - 1
NoInput == [fn |-> "none"]
NoTarget == [bus |-> "", name |-> <<>>, cfg |-> 0]
NoFrame ==
  [fn |-> "none", bus |-> "", vcp |-> 0, value |-> 0, data |-> <<>>, retry |-> 0,
   lastErr |-> "", f |-> 0, feat |-> "", label |-> <<>>, slept |-> FALSE,
   reads |-> <<>>]
NoResult == [err |-> "", name |-> <<>>, value |-> 0]

Ok(r) == r.err = "ok"
RetErr(e) == [err |-> e, name |-> <<>>, value |-> 0]
RetOk == [err |-> "ok", name |-> <<>>, value |-> 0]
RetName(n) == [err |-> "ok", name |-> n, value |-> 0]
RetValue(v) == [err |-> "ok", name |-> <<>>, value |-> v]

CanFail == faults < MaxFaults

\* os.OpenFile succeeded: a new handle, not yet addressed.
NewHandle(bus) == [id |-> nextFd, bus |-> bus, addr |-> 0, io |-> {}]
Handle(id) == CHOOSE h \in handles : h.id = id

\* An ioctl that leaves the handle bound to no slave.
NotAddressed(hs, id, addr) == hs

\* The I2C_SLAVE ioctl on handle id.
Addressed(hs, id, addr) ==
  {IF h.id = id THEN [h EXCEPT !.addr = addr] ELSE h : h \in hs}

\* A return that leaves the handle open.
ClosedLeak(hs, id) == hs

\* defer f.Close() running as the call returns.
Closed(hs, id) == {h \in hs : h.id # id}

\* A read or write on handle id: the handle remembers the operation and the
\* slave address it was bound to at that moment (0: none yet).
DidIo(hs, id, op) ==
  {IF h.id = id THEN [h EXCEPT !.io = @ \cup {[op |-> op, addr |-> h.addr]}] ELSE h :
     h \in hs}

\* What a call did with its handle, kept when the handle is closed.
Summary(fn, h) == [fn |-> fn, addr |-> h.addr, io |-> h.io]
Logged(log, fn, hs, id) == log \cup {Summary(fn, h) : h \in {x \in hs : x.id = id}}

Ev(kind, feat, label, data, res, ms) ==
  [ev |-> kind, feat |-> feat, label |-> label, data |-> data, res |-> res, ms |-> ms]
EvCall(feat, label) == Ev("call", feat, label, <<>>, "", 0)
EvWrite(data, res) == Ev("write", "", <<>>, data, res, 0)
EvSleep(ms) == Ev("sleep", "", <<>>, <<>>, "", ms)
EvRet(feat, res) == Ev("ret", feat, <<>>, <<>>, res, 0)

\* The program's variables before main runs.
Idle ==
  /\ ret = ""
  /\ fr = NoFrame
  /\ result = NoResult
  /\ handles = {}
  /\ nextFd = 3
  /\ busIdx = 1
  /\ devices = <<>>
  /\ target = NoTarget
  /\ order = <<>>
  /\ oi = 1
  /\ pending = {}
  /\ code = 0
  /\ trace = <<>>
  /\ iolog = {}
  /\ opened = {}
  /\ faults = 0
  /\ stderr = <<>>
  /\ exitCode = Running

\* main, lines 249-273: the flags are parsed and the configuration loaded.
Init ==
  /\ \E s \in Scenarios :
       /\ args = s.args
       /\ configs = s.configs
       /\ world = s.world
  /\ pc = "main"
  /\ fnIn = NoInput
  /\ fnOut = NoValue
  /\ Idle

\* --------------------------------------------------------- main: start
\* main, lines 260-263: no flag given, print the usage and return.
Usage ==
  /\ pc = "main"
  /\ NFlag(args) = 0
  /\ pc' = "exit"
  /\ exitCode' = 0
  /\ UNCHANGED <<fnIn, fnOut, args, configs, world, ret, fr, result, handles, nextFd, busIdx,
                 devices, target, order, oi, pending, code, trace, iolog, opened, faults,
                 stderr>>

\* main, line 275: discoverDevices(configs) is entered.
DiscoverStart ==
  /\ pc = "main"
  /\ NFlag(args) > 0
  /\ pc' = "disc_loop"
  /\ busIdx' = 1
  /\ devices' = <<>>
  /\ UNCHANGED <<fnIn, fnOut, args, configs, world, ret, fr, result, handles, nextFd, target,
                 order, oi, pending, code, trace, iolog, opened, faults, stderr, exitCode>>

\* discoverDevices, lines 215-216: the next bus, or the end of the loop.
DiscoverNext ==
  /\ pc = "disc_loop"
  /\ IF busIdx > Len(Buses)
       THEN /\ pc' = "select"
            /\ UNCHANGED <<fr, ret>>
       ELSE /\ pc' = "gm_open"
            /\ fr' = [NoFrame EXCEPT !.fn = "getMonitorName", !.bus = Buses[busIdx]]
            /\ ret' = "disc_ret"
  /\ UNCHANGED <<fnIn, fnOut, args, configs, world, result, handles, nextFd, busIdx, devices,
                 target, order, oi, pending, code, trace, iolog, opened, faults, stderr,
                 exitCode>>

\* ------------------------------------------------------ getMonitorName
\* Lines 138-142: os.OpenFile, then defer f.Close().
GmOpen ==
  /\ pc = "gm_open"
  /\ opened' = opened \cup {fr.bus}
  /\ \/ /\ handles' = handles \cup {NewHandle(fr.bus)}
        /\ nextFd' = nextFd + 1
        /\ fr' = [fr EXCEPT !.f = nextFd]
        /\ pc' = "gm_ioctl"
        /\ UNCHANGED <<faults, result>>
     \/ /\ CanFail
        /\ faults' = faults + 1
        /\ result' = RetName(<<>>)
        /\ pc' = ret
        /\ UNCHANGED <<handles, nextFd, fr>>
  /\ UNCHANGED <<fnIn, fnOut, args, configs, world, ret, busIdx, devices, target, order, oi,
                 pending, code, trace, iolog, stderr, exitCode>>

\* Lines 144-146: address the handle to the EDID slave.
GmIoctl ==
  /\ pc = "gm_ioctl"
  /\ \/ /\ handles' = Addressed(handles, fr.f, EDID_ADDR)
        /\ pc' = "gm_read"
        /\ UNCHANGED <<faults, result, iolog>>
     \/ /\ CanFail
        /\ faults' = faults + 1
        /\ handles' = Closed(handles, fr.f)
        /\ iolog' = Logged(iolog, "getMonitorName", handles, fr.f)
        /\ result' = RetName(<<>>)
        /\ pc' = ret
  /\ UNCHANGED <<fnIn, fnOut, args, configs, world, ret, fr, nextFd, busIdx, devices, target,
                 order, oi, pending, code, trace, opened, stderr, exitCode>>

\* Lines 148-169: read the 128 bytes and extract the name.
GmRead ==
  /\ pc = "gm_read"
  /\ iolog' = Logged(iolog, "getMonitorName", DidIo(handles, fr.f, "read"), fr.f)
  /\ handles' = Closed(handles, fr.f)
  /\ pc' = ret
  /\ \/ /\ world[fr.bus] # "none"
        /\ result' = RetName(EdidName(EdidOf(world[fr.bus])))
        /\ UNCHANGED faults
     \/ /\ world[fr.bus] = "none" \/ CanFail
        /\ faults' = IF world[fr.bus] = "none" THEN faults ELSE faults + 1
        /\ result' = RetName(<<>>)
  /\ UNCHANGED <<fnIn, fnOut, args, configs, world, ret, fr, nextFd, busIdx, devices, target,
                 order, oi, pending, code, trace, opened, stderr, exitCode>>

\* ----------------------------------------------------- discoverDevices
\* Lines 221-227: the first config whose match occurs in the name, ignoring
\* case (0: nil).
matchConfig(name, cfgs) ==
  LET hit == {i \in 1..Len(cfgs) : Contains(ToUpper(name), ToUpper(cfgs[i].match))}
  IN  IF hit = {} THEN 0 ELSE Min(hit)

\* Lines 216-229: getMonitorName returned; skip the bus or append a Device.
DiscoverRet ==
  /\ pc = "disc_ret"
  /\ devices' =
       IF result.name = <<>> THEN devices
       ELSE Append(devices, [bus |-> Buses[busIdx], name |-> result.name,
                             cfg |-> matchConfig(result.name, configs)])
  /\ busIdx' = busIdx + 1
  /\ pc' = "disc_loop"
  /\ fr' = NoFrame
  /\ UNCHANGED <<fnIn, fnOut, args, configs, world, ret, result, handles, nextFd, target, order,
                 oi, pending, code, trace, iolog, opened, faults, stderr, exitCode>>

\* -------------------------------------------------- main: the target
FirstOf(S) == IF S = {} THEN 0 ELSE Min(S)

DefaultCfg == IF Len(configs) > 0 THEN 1 ELSE 0

\* main, lines 277-304: the Device the run acts on (NoTarget: nil).
selectTarget ==
  IF args.bus # ""
    THEN LET i == FirstOf({k \in 1..Len(devices) : devices[k].bus = args.bus})
         IN  IF i # 0 THEN devices[i]
             ELSE [bus |-> args.bus, name |-> N_Manual, cfg |-> DefaultCfg]
    ELSE LET i == FirstOf({k \in 1..Len(devices) : devices[k].cfg # 0})
         IN  IF i # 0 THEN devices[i]
             ELSE IF Len(devices) > 0 THEN [devices[1] EXCEPT !.cfg = DefaultCfg]
             ELSE NoTarget

\* main, lines 277-309.
Select ==
  /\ pc = "select"
  /\ target' = selectTarget
  /\ IF selectTarget = NoTarget
       THEN /\ stderr' = Append(stderr, "No monitor detected.")
            /\ exitCode' = 1
            /\ pc' = "exit"
       ELSE /\ pc' = "main_scan"
            /\ UNCHANGED <<stderr, exitCode>>
  /\ UNCHANGED <<fnIn, fnOut, args, configs, world, ret, fr, result, handles, nextFd, busIdx,
                 devices, order, oi, pending, code, trace, iolog, opened, faults>>

\* --------------------------------------------------------- applyFeature
\* Lines 234-245: the (vcp, value) pair of a feature name and a value label,
\* or the error.
resolve(t, featureName, valueLabel) ==
  IF t.cfg = 0 THEN [err |-> "no config for this monitor", vcp |-> 0, value |-> 0]
  ELSE LET features == configs[t.cfg].features
       IN  IF featureName \notin DOMAIN features
             THEN [err |-> "feature not defined", vcp |-> 0, value |-> 0]
           ELSE LET feat == features[featureName]
                    key == ToLower(valueLabel)
                IN  IF key \notin DOMAIN feat.values
                      THEN [err |-> "invalid value", vcp |-> 0, value |-> 0]
                    ELSE [err |-> "ok", vcp |-> parseHex(feat.vcp),
                          value |-> parseHex16(feat.values[key])]

\* A caller's `applyFeature(target, featName, valLabel)`.
CallApply(featName, valLabel, back) ==
  /\ fr' = [NoFrame EXCEPT !.fn = "applyFeature", !.bus = target.bus,
                           !.feat = featName, !.label = valLabel]
  /\ ret' = back
  /\ pc' = "af"

\* applyFeature, lines 233-246: resolve, then return setVCP(...).
ApplyFeature ==
  /\ pc = "af"
  /\ LET r == resolve(target, fr.feat, fr.label)
     IN  IF r.err # "ok"
           THEN /\ trace' = trace \o <<EvCall(fr.feat, fr.label), EvRet(fr.feat, r.err)>>
                /\ result' = RetErr(r.err)
                /\ pc' = ret
                /\ UNCHANGED fr
           ELSE /\ trace' = Append(trace, EvCall(fr.feat, fr.label))
                /\ fr' = [fr EXCEPT !.fn = "setVCP", !.vcp = r.vcp, !.value = r.value]
                /\ pc' = "sv_open"
                /\ UNCHANGED result
  /\ UNCHANGED <<fnIn, fnOut, args, configs, world, ret, handles, nextFd, busIdx, devices, target,
                 order, oi, pending, code, iolog, opened, faults, stderr, exitCode>>

\* --------------------------------------------------------------- setVCP
\* The attempts of the write loop: for retry := 0; retry < 3; retry++.
WriteAttempts == 3
RetryDelayMs == 200

\* The errno values a failing write returns.
WriteErrors == {"EIO", "ENXIO"}

\* A loop bound that allows one attempt more.
MoreAttemptsOffByOne(retry) == retry <= WriteAttempts

\* A write loop without a bound.
MoreAttemptsForever(retry) == TRUE

\* The write loop's condition.
MoreAttempts(retry) == retry < WriteAttempts

\* Lines 74-78.
SvOpen ==
  /\ pc = "sv_open"
  /\ opened' = opened \cup {fr.bus}
  /\ \/ /\ handles' = handles \cup {NewHandle(fr.bus)}
        /\ nextFd' = nextFd + 1
        /\ fr' = [fr EXCEPT !.f = nextFd]
        /\ pc' = "sv_ioctl"
        /\ UNCHANGED <<faults, result, trace>>
     \/ /\ CanFail
        /\ faults' = faults + 1
        /\ result' = RetErr("EACCES")
        /\ trace' = Append(trace, EvRet(fr.feat, "EACCES"))
        /\ pc' = ret
        /\ UNCHANGED <<handles, nextFd, fr>>
  /\ UNCHANGED <<fnIn, fnOut, args, configs, world, ret, busIdx, devices, target, order, oi,
                 pending, code, iolog, stderr, exitCode>>

\* Lines 80-85: address the handle to the DDC-CI slave, build the frame.
SvIoctl ==
  /\ pc = "sv_ioctl"
  /\ \/ /\ handles' = Addressed(handles, fr.f, DDC_ADDR)
        /\ fr' = [fr EXCEPT !.data = SetFrame(fr.vcp, fr.value), !.retry = 0]
        /\ pc' = "sv_write"
        /\ UNCHANGED <<faults, result, trace, iolog>>
     \/ /\ CanFail
        /\ faults' = faults + 1
        /\ handles' = Closed(handles, fr.f)
        /\ iolog' = Logged(iolog, "setVCP", handles, fr.f)
        /\ result' = RetErr("EBUSY")
        /\ trace' = Append(trace, EvRet(fr.feat, "EBUSY"))
        /\ pc' = ret
        /\ UNCHANGED fr
  /\ UNCHANGED <<fnIn, fnOut, args, configs, world, ret, nextFd, busIdx, devices, target, order,
                 oi, pending, code, opened, stderr, exitCode>>

\* Lines 90-97: one iteration of the write loop.
SvWrite ==
  /\ pc = "sv_write"
  /\ MoreAttempts(fr.retry)
  /\ \/ /\ trace' = trace \o <<EvWrite(fr.data, "ok"), EvRet(fr.feat, "ok")>>
        /\ iolog' = Logged(iolog, "setVCP", DidIo(handles, fr.f, "write"), fr.f)
        /\ handles' = Closed(handles, fr.f)
        /\ result' = RetOk
        /\ pc' = ret
        /\ UNCHANGED <<faults, fr>>
     \/ \E e \in WriteErrors :
          /\ CanFail
          /\ faults' = faults + 1
          /\ trace' = trace \o <<EvWrite(fr.data, e), EvSleep(RetryDelayMs)>>
          /\ fr' = [fr EXCEPT !.lastErr = e, !.retry = fr.retry + 1]
          /\ handles' = DidIo(handles, fr.f, "write")
          /\ UNCHANGED <<iolog, result, pc>>
  /\ UNCHANGED <<fnIn, fnOut, args, configs, world, ret, nextFd, busIdx, devices, target, order,
                 oi, pending, code, opened, stderr, exitCode>>

\* Line 98: the loop ran out, return lastErr.
SvGiveUp ==
  /\ pc = "sv_write"
  /\ ~MoreAttempts(fr.retry)
  /\ handles' = Closed(handles, fr.f)
  /\ iolog' = Logged(iolog, "setVCP", handles, fr.f)
  /\ result' = RetErr(fr.lastErr)
  /\ trace' = Append(trace, EvRet(fr.feat, fr.lastErr))
  /\ pc' = ret
  /\ UNCHANGED <<fnIn, fnOut, args, configs, world, ret, fr, nextFd, busIdx, devices, target,
                 order, oi, pending, code, opened, faults, stderr, exitCode>>

\* ------------------------------------------------------- main: preset
OrderOff == <<"pbp_mode", "input_source", "usb_selection">>
OrderPbp == <<"input_source", "pbp_mode", "pbp_sub_input", "usb_selection">>
ResetSettleMs == 2000
SlowSettleMs == 2000
FastSettleMs == 1000

\* The preset named on the command line (lines 327-331 found it).
Preset == configs[target.cfg].presets[args.preset]

\* preset["pbp_mode"]: the label, or Go's zero value "" when absent.
MapGet(m, k) == IF k \in DOMAIN m THEN m[k] ELSE <<>>

\* A comparison with the upper-case label.
ToFullscreenUpper(preset) == MapGet(preset, "pbp_mode") = L_OFF

\* Line 339: targetPbpMode == "off".
ToFullscreen(preset) == MapGet(preset, "pbp_mode") = L_off

\* A PBP order that sets the mode before the input.
presetOrderPbpFirst(preset) ==
  IF ToFullscreen(preset) THEN OrderOff
  ELSE <<"pbp_mode", "input_source", "pbp_sub_input", "usb_selection">>

\* Lines 339-348: the order the features are applied in.
presetOrder(preset) == IF ToFullscreen(preset) THEN OrderOff ELSE OrderPbp

\* A settle delay that is slow for pbp_mode only.
SettleDelayPbpOnly(featName) ==
  IF featName = "pbp_mode" THEN SlowSettleMs ELSE FastSettleMs

\* Lines 355-359: the sleep after a feature.
SettleDelay(featName) ==
  IF featName = "pbp_mode" \/ featName = "input_source" THEN SlowSettleMs
  ELSE FastSettleMs

\* Lines 322-348: find the preset, choose the order, start the reset.
PresetStart ==
  /\ pc = "main_preset"
  /\ IF args.preset = ""
       THEN /\ pc' = "main_input"
            /\ UNCHANGED <<stderr, exitCode, order, oi, fr, ret>>
     ELSE IF target.cfg = 0
       THEN /\ stderr' = Append(stderr, "Error: No config matched for monitor")
            /\ exitCode' = 1
            /\ pc' = "exit"
            /\ UNCHANGED <<order, oi, fr, ret>>
     ELSE IF args.preset \notin DOMAIN configs[target.cfg].presets
       THEN /\ stderr' = Append(stderr, "Error: Preset not found.")
            /\ exitCode' = 1
            /\ pc' = "exit"
            /\ UNCHANGED <<order, oi, fr, ret>>
     ELSE /\ order' = presetOrder(Preset)
          /\ oi' = 1
          /\ IF ToFullscreen(Preset)
               THEN /\ pc' = "preset_loop"
                    /\ UNCHANGED <<fr, ret>>
               ELSE CallApply("pbp_mode", L_off, "preset_reset")
          /\ UNCHANGED <<stderr, exitCode>>
  /\ UNCHANGED <<fnIn, fnOut, args, configs, world, result, handles, nextFd, busIdx, devices,
                 target, pending, code, trace, iolog, opened, faults>>

\* Line 346: the reset returned (its error is dropped); settle.
PresetReset ==
  /\ pc = "preset_reset"
  /\ trace' = Append(trace, EvSleep(ResetSettleMs))
  /\ pc' = "preset_loop"
  /\ fr' = NoFrame
  /\ UNCHANGED <<fnIn, fnOut, args, configs, world, ret, result, handles, nextFd, busIdx, devices,
                 target, order, oi, pending, code, iolog, opened, faults, stderr,
                 exitCode>>

\* Lines 350-352: the next feature of the order; apply it if the preset
\* defines it.
PresetNext ==
  /\ pc = "preset_loop"
  /\ IF oi > Len(order)
       THEN /\ pc' = "main_input"
            /\ UNCHANGED <<oi, fr, ret>>
     ELSE IF order[oi] \notin DOMAIN Preset
       THEN /\ oi' = oi + 1
            /\ UNCHANGED <<pc, fr, ret>>
     ELSE /\ CallApply(order[oi], Preset[order[oi]], "preset_step")
          /\ UNCHANGED oi
  /\ UNCHANGED <<fnIn, fnOut, args, configs, world, result, handles, nextFd, busIdx, devices,
                 target, order, pending, code, trace, iolog, opened, faults, stderr,
                 exitCode>>

\* A loop that stops at the first failed step.
stepAfterAbort(r, i, ord) == IF Ok(r) THEN i + 1 ELSE Len(ord) + 1

\* Lines 350-361: the loop index after a step that returned r; an error is
\* printed and the loop goes on.
stepAfter(r, i, ord) == i + 1

\* Lines 352-359: applyFeature returned; report an error, settle, go on.
PresetStepRet ==
  /\ pc = "preset_step"
  /\ stderr' = IF Ok(result) THEN stderr
               ELSE Append(stderr, "Error applying feature")
  /\ trace' = Append(trace, EvSleep(SettleDelay(order[oi])))
  /\ oi' = stepAfter(result, oi, order)
  /\ pc' = "preset_loop"
  /\ fr' = NoFrame
  /\ UNCHANGED <<fnIn, fnOut, args, configs, world, ret, result, handles, nextFd, busIdx, devices,
                 target, order, pending, code, iolog, opened, faults, exitCode>>

\* --------------------------------------------------------------- getVCP
\* The read loop: for retry := 0; retry < 2; retry++.
ReadCycles == 2
ReadDelayMs == 150

MoreReads(retry) == retry < ReadCycles

\* What f.Read can deliver for a request of code vcp: the bytes received
\* (n = their number) or an error.  The first is the display's usual answer;
\* the others are taken as faults.
UsualReply(vcp) == <<110, 136, 2, 0, vcp, 0, 0, 255, 0, 17, 0>>

OddReplies(vcp) ==
  {<<136, 2, 0, vcp, 0, 0, 255, 15, 15, 0>>,
   <<110, 128, 190, 0, 0, 0, 0, 0, 1, 2, 0, 0, 0, 0, 0, 0>>,
   <<110, 128, 190>>,
   <<255, 255, 255, 255, 255, 255, 255, 255, 255, 255, 255, 255, 255, 255, 255, 255>>,
   <<0, 0, 0, 0, 0, 0, 0, 0, 0, 2, 0, vcp, 0, 0, 0, 0>>,
   <<110, 136, 2, 0, vcp, 0, 0, 255, 0, 18, 0, 0, 0, 0, 0>>}

\* A caller's `getVCP(bus, vcp)`.
CallGet(vcp, back) ==
  /\ fr' = [NoFrame EXCEPT !.fn = "getVCP", !.bus = target.bus, !.vcp = vcp]
  /\ ret' = back
  /\ pc' = "gv_open"

\* Lines 102-106.
GvOpen ==
  /\ pc = "gv_open"
  /\ opened' = opened \cup {fr.bus}
  /\ \/ /\ handles' = handles \cup {NewHandle(fr.bus)}
        /\ nextFd' = nextFd + 1
        /\ fr' = [fr EXCEPT !.f = nextFd]
        /\ pc' = "gv_ioctl"
        /\ UNCHANGED <<faults, result>>
     \/ /\ CanFail
        /\ faults' = faults + 1
        /\ result' = RetErr("EACCES")
        /\ pc' = ret
        /\ UNCHANGED <<handles, nextFd, fr>>
  /\ UNCHANGED <<fnIn, fnOut, args, configs, world, ret, busIdx, devices, target, order, oi,
                 pending, code, trace, iolog, stderr, exitCode>>

\* Lines 108-113: address the handle to the DDC-CI slave, build the request.
GvIoctl ==
  /\ pc = "gv_ioctl"
  /\ \/ /\ handles' = Addressed(handles, fr.f, DDC_ADDR)
        /\ fr' = [fr EXCEPT !.data = GetFrame(fr.vcp)]
        /\ pc' = "gv_write"
        /\ UNCHANGED <<faults, result, iolog>>
     \/ /\ CanFail
        /\ faults' = faults + 1
        /\ handles' = Closed(handles, fr.f)
        /\ iolog' = Logged(iolog, "getVCP", handles, fr.f)
        /\ result' = RetErr("EBUSY")
        /\ pc' = ret
        /\ UNCHANGED fr
  /\ UNCHANGED <<fnIn, fnOut, args, configs, world, ret, nextFd, busIdx, devices, target, order,
                 oi, pending, code, trace, opened, stderr, exitCode>>

\* Lines 115-117: write the request, once.
GvWrite ==
  /\ pc = "gv_write"
  /\ \/ /\ fr' = [fr EXCEPT !.retry = 0]
        /\ handles' = DidIo(handles, fr.f, "write")
        /\ pc' = "gv_loop"
        /\ UNCHANGED <<faults, result, iolog>>
     \/ \E e \in WriteErrors :
          /\ CanFail
          /\ faults' = faults + 1
          /\ handles' = Closed(handles, fr.f)
          /\ iolog' = Logged(iolog, "getVCP", DidIo(handles, fr.f, "write"), fr.f)
          /\ result' = RetErr(e)
          /\ pc' = ret
          /\ UNCHANGED fr
  /\ UNCHANGED <<fnIn, fnOut, args, configs, world, ret, nextFd, busIdx, devices, target, order,
                 oi, pending, code, trace, opened, stderr, exitCode>>

\* Lines 119-120: enter a read cycle, sleep.
GvSleep ==
  /\ pc = "gv_loop"
  /\ MoreReads(fr.retry)
  /\ fr' = [fr EXCEPT !.slept = TRUE]
  /\ pc' = "gv_read"
  /\ UNCHANGED <<fnIn, fnOut, args, configs, world, ret, result, handles, nextFd, busIdx, devices,
                 target, order, oi, pending, code, trace, iolog, opened, faults,
                 stderr, exitCode>>

\* Lines 121-132 on what the read delivered: return the value, panic, or go
\* to the next cycle.
GvParsed(out) ==
  LET seen == [fr EXCEPT !.reads = Append(fr.reads, [slept |-> fr.slept, out |-> out])]
      did == DidIo(handles, fr.f, "read")
  IN  IF out.kind = "value"
        THEN /\ handles' = Closed(handles, fr.f)
             /\ iolog' = Logged(iolog, "getVCP", did, fr.f)
             /\ result' = RetValue(out.value)
             /\ fr' = seen
             /\ pc' = ret
             /\ UNCHANGED <<stderr, exitCode>>
      ELSE IF out.kind = "panic"
        THEN /\ handles' = Closed(handles, fr.f)
             /\ iolog' = Logged(iolog, "getVCP", did, fr.f)
             /\ stderr' = Append(stderr, "panic: runtime error: index out of range")
             /\ exitCode' = 2
             /\ fr' = seen
             /\ pc' = "exit"
             /\ UNCHANGED result
      ELSE /\ fr' = [seen EXCEPT !.retry = fr.retry + 1, !.slept = FALSE]
           /\ handles' = did
           /\ pc' = "gv_loop"
           /\ UNCHANGED <<iolog, result, stderr, exitCode>>

\* Lines 121-132: one read into a fresh 16-byte buffer, and its parse.
GvRead ==
  /\ pc = "gv_read"
  /\ \/ /\ GvParsed(ParseReply(ReplyBuf(UsualReply(fr.vcp)), Len(UsualReply(fr.vcp)),
                               TRUE, fr.vcp))
        /\ UNCHANGED faults
     \/ /\ CanFail
        /\ faults' = faults + 1
        /\ \/ \E r \in OddReplies(fr.vcp) :
                GvParsed(ParseReply(ReplyBuf(r), Len(r), TRUE, fr.vcp))
           \/ GvParsed(ParseReply(ReplyBuf(<<>>), 0, FALSE, fr.vcp))
  /\ UNCHANGED <<fnIn, fnOut, args, configs, world, ret, nextFd, busIdx, devices, target, order,
                 oi, pending, code, trace, opened>>

\* Line 134: no cycle accepted a reply.
GvFail ==
  /\ pc = "gv_loop"
  /\ ~MoreReads(fr.retry)
  /\ handles' = Closed(handles, fr.f)
  /\ iolog' = Logged(iolog, "getVCP", handles, fr.f)
  /\ result' = RetErr("failed read")
  /\ pc' = ret
  /\ UNCHANGED <<fnIn, fnOut, args, configs, world, ret, fr, nextFd, busIdx, devices, target,
                 order, oi, pending, code, trace, opened, faults, stderr, exitCode>>

\* ---------------------------------------------------------- main: scan
ScanFirst == 224
ScanLast == 242

\* Lines 311-313.
ScanStart ==
  /\ pc = "main_scan"
  /\ IF args.scan
       THEN /\ code' = ScanFirst
            /\ pc' = "scan_loop"
       ELSE /\ pc' = "main_preset"
            /\ UNCHANGED code
  /\ UNCHANGED <<fnIn, fnOut, args, configs, world, ret, fr, result, handles, nextFd, busIdx,
                 devices, target, order, oi, pending, trace, iolog, opened, faults,
                 stderr, exitCode>>

\* Lines 313-319: the next code, or return from main.
ScanNext ==
  /\ pc = "scan_loop"
  /\ IF code > ScanLast
       THEN /\ pc' = "exit"
            /\ exitCode' = 0
            /\ UNCHANGED <<fr, ret>>
       ELSE /\ CallGet(code, "scan_ret")
            /\ UNCHANGED exitCode
  /\ UNCHANGED <<fnIn, fnOut, args, configs, world, result, handles, nextFd, busIdx, devices,
                 target, order, oi, pending, code, trace, iolog, opened, faults,
                 stderr>>

\* Lines 314-317: getVCP returned.
ScanRet ==
  /\ pc = "scan_ret"
  /\ code' = code + 1
  /\ pc' = "scan_loop"
  /\ fr' = NoFrame
  /\ UNCHANGED <<fnIn, fnOut, args, configs, world, ret, result, handles, nextFd, busIdx, devices,
                 target, order, oi, pending, trace, iolog, opened, faults, stderr,
                 exitCode>>

\* ------------------------------------------- main: input, pbp, status
\* Lines 364-366.
MainInput ==
  /\ pc = "main_input"
  /\ IF args.input # <<>>
       THEN CallApply("input_source", args.input, "main_pbp")
       ELSE /\ pc' = "main_pbp"
            /\ UNCHANGED <<fr, ret>>
  /\ UNCHANGED <<fnIn, fnOut, args, configs, world, result, handles, nextFd, busIdx, devices,
                 target, order, oi, pending, code, trace, iolog, opened, faults,
                 stderr, exitCode>>

\* Lines 367-369.
MainPbp ==
  /\ pc = "main_pbp"
  /\ IF args.pbp # <<>>
       THEN CallApply("pbp_mode", args.pbp, "main_status")
       ELSE /\ pc' = "main_status"
            /\ UNCHANGED <<fr, ret>>
  /\ UNCHANGED <<fnIn, fnOut, args, configs, world, result, handles, nextFd, busIdx, devices,
                 target, order, oi, pending, code, trace, iolog, opened, faults,
                 stderr, exitCode>>

\* Line 371: -status, or no other request.
WantStatus ==
  args.status \/ (args.input = <<>> /\ args.pbp = <<>> /\ args.preset = "" /\ ~args.scan)

\* Lines 371-374: the status block is entered, or main returns.
MainStatus ==
  /\ pc = "main_status"
  /\ IF WantStatus /\ target.cfg # 0
       THEN /\ pending' = DOMAIN configs[target.cfg].features
            /\ pc' = "status_loop"
            /\ UNCHANGED exitCode
       ELSE /\ pc' = "exit"
            /\ exitCode' = 0
            /\ UNCHANGED pending
  /\ fr' = NoFrame
  /\ UNCHANGED <<fnIn, fnOut, args, configs, world, ret, result, handles, nextFd, busIdx, devices,
                 target, order, oi, code, trace, iolog, opened, faults, stderr>>

\* Lines 374-375: the map iteration yields the features in any order.
StatusNext ==
  /\ pc = "status_loop"
  /\ IF pending = {}
       THEN /\ pc' = "exit"
            /\ exitCode' = 0
            /\ UNCHANGED <<fr, ret, pending>>
       ELSE /\ \E name \in pending :
                 /\ CallGet(parseHex(configs[target.cfg].features[name].vcp),
                            "status_ret")
                 /\ pending' = pending \ {name}
            /\ UNCHANGED exitCode
  /\ UNCHANGED <<fnIn, fnOut, args, configs, world, result, handles, nextFd, busIdx, devices,
                 target, order, oi, code, trace, iolog, opened, faults, stderr>>

\* Lines 375-376: getVCP returned (its error is dropped), print.
StatusRet ==
  /\ pc = "status_ret"
  /\ pc' = "status_loop"
  /\ fr' = NoFrame
  /\ UNCHANGED <<fnIn, fnOut, args, configs, world, ret, result, handles, nextFd, busIdx, devices,
                 target, order, oi, pending, code, trace, iolog, opened, faults,
                 stderr, exitCode>>

\* ------------------------------------------------------ specification
Next ==
  \/ Usage \/ DiscoverStart \/ DiscoverNext \/ GmOpen \/ GmIoctl \/ GmRead
  \/ DiscoverRet \/ Select \/ ScanStart \/ ScanNext \/ ScanRet
  \/ PresetStart \/ PresetReset \/ PresetNext \/ PresetStepRet
  \/ ApplyFeature \/ SvOpen \/ SvIoctl \/ SvWrite \/ SvGiveUp
  \/ GvOpen \/ GvIoctl \/ GvWrite \/ GvSleep \/ GvRead \/ GvFail
  \/ MainInput \/ MainPbp \/ MainStatus \/ StatusNext \/ StatusRet

Spec == Init /\ [][Next]_vars

\* ============================================================ properties
\* ------------------------------------------------- reading the trace
Positions(kind) == {p \in 1..Len(trace) : trace[p].ev = kind}

\* The applyFeature calls made so far, as <<feature, label>> pairs.
CallSeq ==
  LET calls == SelectSeq(trace, LAMBDA e : e.ev = "call")
  IN  [k \in 1..Len(calls) |-> <<calls[k].feat, calls[k].label>>]

IsPrefix(a, b) == Len(a) <= Len(b) /\ SubSeq(b, 1, Len(a)) = a

\* The features of `ord` that `preset` defines, in that order, with labels.
RECURSIVE DefinedIn(_, _)
DefinedIn(ord, preset) ==
  IF ord = <<>> THEN <<>>
  ELSE (IF Head(ord) \in DOMAIN preset
          THEN << <<Head(ord), preset[Head(ord)]>> >> ELSE <<>>)
       \o DefinedIn(Tail(ord), preset)

\* The end of the call that starts at position q: its "ret", or past the
\* trace while the call is running.
EndOf(q) ==
  LET later == {p \in Positions("ret") : p > q}
  IN  IF later = {} THEN Len(trace) + 1 ELSE Min(later)

\* The frame writes of the call that starts at position q.
WritesOf(q) ==
  SelectSeq(SubSeq(trace, q + 1, EndOf(q) - 1), LAMBDA e : e.ev = "write")

\* The preset is being applied: between its lookup and the end of its loop.
InPresetPhase ==
  \/ pc \in {"preset_reset", "preset_loop", "preset_step"}
  \/ pc \in {"af", "sv_open", "sv_ioctl", "sv_write"} /\ ret \in {"preset_reset", "preset_step"}

\* The preset has been applied: a preset was found and its loop is over.
PresetOver == args.preset # "" /\ order # <<>> /\ ~InPresetPhase

\* Every frame written belongs to a running call and is the SET frame of
\* that call's feature and label.
WritesMatchCalls ==
  \A p \in Positions("write") :
    \E q \in Positions("call") :
      /\ q < p /\ p < EndOf(q)
      /\ LET r == resolve(target, trace[q].feat, trace[q].label)
         IN  r.err = "ok" /\ trace[p].data = SetFrame(r.vcp, r.value)

\* C1 as stated, on runs without any I/O failure: for a preset whose
\* pbp_mode label is not "off", the first thing preset application does is
\* write the pbp_mode=off reset frame to the bus.
C1_ResetAlwaysWritten ==
  (PresetOver /\ MapGet(Preset, "pbp_mode") # L_off /\ faults = 0)
    => (Len(trace) >= 2 /\ trace[1] = EvCall("pbp_mode", L_off)
        /\ trace[2].ev = "write")

\* C1 (amended): for a preset whose pbp_mode label is not "off" (or that
\* defines none), preset application first calls applyFeature(pbp_mode,
\* "off"), unconditionally; that call writes the reset frame to the bus, as
\* the first frame of the run, when the config resolves pbp_mode/off and the
\* handle opens and is addressed, and writes nothing when the config does
\* not resolve it.  Only after it returns are the preset's own features
\* applied: exactly those the preset defines, in the order input_source,
\* pbp_mode, pbp_sub_input, usb_selection, each frame being the one of its
\* feature and label.
C1_ResetThenPbpOrder ==
  (args.preset # "" /\ order # <<>> /\ MapGet(Preset, "pbp_mode") # L_off)
    => LET want == << <<"pbp_mode", L_off>> >>
                   \o DefinedIn(<<"input_source", "pbp_mode", "pbp_sub_input",
                                  "usb_selection">>, Preset)
           r == resolve(target, "pbp_mode", L_off)
       IN  /\ IsPrefix(CallSeq, want)
           /\ PresetOver => CallSeq = want
           /\ pc # "af" => (trace # <<>> /\ trace[1] = EvCall("pbp_mode", L_off))
           /\ WritesMatchCalls
           /\ Len(trace) >= 2 =>
                /\ r.err # "ok" => (trace[2].ev = "ret" /\ WritesOf(1) = <<>>)
                /\ (r.err = "ok" /\ trace[2].ev # "ret") =>
                     (trace[2].ev = "write" /\ trace[2].data = SetFrame(r.vcp, r.value))

\* C1 witness: the "divided" preset of the full config was applied without
\* a failure: the reset frame and three feature frames were written.
C1_Witness ==
  /\ PresetOver /\ args.preset = "divided" /\ configs[target.cfg] = CfgDell
  /\ Cardinality(Positions("write")) = 4
  /\ trace[2] = EvWrite(SetFrame(233, 0), "ok")

\* C2: for a preset whose pbp_mode label is "off" there is no separate
\* reset: the applyFeature calls are exactly the features the preset defines
\* in the order pbp_mode, input_source, usb_selection; every frame written
\* is the frame of one of these calls, so a feature the preset does not
\* define (or that the order leaves out) produces no write.
C2_OffOrder ==
  (args.preset # "" /\ order # <<>> /\ MapGet(Preset, "pbp_mode") = L_off)
    => LET want == DefinedIn(<<"pbp_mode", "input_source", "usb_selection">>, Preset)
       IN  /\ IsPrefix(CallSeq, want)
           /\ PresetOver => CallSeq = want
           /\ WritesMatchCalls
           /\ \A p \in Positions("call") :
                /\ trace[p].feat \in DOMAIN Preset
                /\ trace[p].label = Preset[trace[p].feat]
           /\ Cardinality(Positions("call")) <= Cardinality(DOMAIN Preset)

\* C2 witness: "fullsub" (pbp_mode off, pbp_sub_input, usb_selection) was
\* applied: two frames, pbp_mode and usb_selection, and none for the others.
C2_Witness ==
  /\ PresetOver /\ args.preset = "fullsub"
  /\ CallSeq = << <<"pbp_mode", L_off>>, <<"usb_selection", L_up1>> >>
  /\ Cardinality(Positions("write")) = 2

\* C3: a failed step never aborts the sequence: once preset application is
\* over, every feature of the chosen order that the preset defines has been
\* attempted (the reset call at position 1 of a non-off preset not counted),
\* after the steps before it returned, whatever they returned.
C3_NoAbort ==
  PresetOver =>
    \A k \in 1..Len(order) :
      order[k] \in DOMAIN Preset =>
        \E p \in Positions("call") :
          /\ p > (IF MapGet(Preset, "pbp_mode") = L_off THEN 0 ELSE 1)
          /\ trace[p] = EvCall(order[k], Preset[order[k]])
          /\ \A j \in 1..(k - 1) :
               order[j] \in DOMAIN Preset =>
                 \E q \in Positions("ret") : q < p /\ trace[q].feat = order[j]

\* C3 witness: a step failed to resolve, a later step failed on the bus,
\* and a step after both was still attempted.
C3_Witness ==
  /\ PresetOver
  /\ \E p, q \in Positions("ret") :
       /\ p < q
       /\ trace[p].res = "invalid value"
       /\ trace[q].res \in {"EIO", "ENXIO", "EACCES", "EBUSY"}
       /\ \E c \in Positions("call") : c > q

\* C4: during preset application every feature step is followed at once,
\* and so before the next step, by a sleep of 2 s when the feature is
\* pbp_mode or input_source and of 1 s otherwise.
C4_Settle ==
  (args.preset # "" /\ order # <<>>) =>
    /\ \A p \in Positions("ret") :
         IF p < Len(trace)
           THEN trace[p + 1] =
                  EvSleep(IF trace[p].feat \in {"pbp_mode", "input_source"}
                            THEN 2000 ELSE 1000)
           ELSE pc \in {"preset_reset", "preset_step"}
    /\ \A p \in Positions("call") : p > 1 =>
         (trace[p - 1].ev = "sleep" /\ trace[p - 2].ev = "ret")

\* C4 witness: a preset was applied with steps of both kinds.
C4_Witness ==
  /\ PresetOver
  /\ \E p, q \in Positions("ret") :
       /\ trace[p].feat = "input_source" /\ trace[p + 1] = EvSleep(2000)
       /\ trace[q].feat = "usb_selection" /\ trace[q + 1] = EvSleep(1000)

\* C5: setVCP makes at most 3 write attempts; no attempt follows a
\* successful one, which makes the call return success; and when all 3 fail
\* the call returns the error of the last one.
C5_Retry ==
  \A q \in Positions("call") :
    LET w == WritesOf(q)
        e == EndOf(q)
    IN  /\ Len(w) <= 3
        /\ \A k \in 1..(Len(w) - 1) : w[k].res # "ok"
        /\ e > Len(trace) => \A k \in 1..Len(w) : w[k].res # "ok"
        /\ (e <= Len(trace) /\ w # <<>>) =>
             IF w[Len(w)].res = "ok" THEN trace[e].res = "ok"
             ELSE Len(w) = 3 /\ trace[e].res = w[3].res
        /\ (e <= Len(trace) /\ trace[e].res = "ok") =>
             (w # <<>> /\ w[Len(w)].res = "ok")

\* C5 witness: three attempts failed with different errors and the call
\* returned the third.
C5_Witness ==
  \E q \in Positions("call") :
    LET w == WritesOf(q)
        e == EndOf(q)
    IN  /\ e <= Len(trace) /\ Len(w) = 3
        /\ w[1].res = "ENXIO" /\ w[2].res = "ENXIO" /\ w[3].res = "EIO"
        /\ trace[e].res = "EIO"

\* ------------------------------------------------------------- getVCP
\* A getVCP call that wrote its request has ended: it returned to its
\* caller, or the process died in it.
GetOver ==
  /\ fr.fn = "getVCP"
  /\ fr.reads # <<>>
  /\ pc \in {"scan_ret", "status_ret", "exit"}

\* C6: after the request getVCP makes at most 2 reads, each after a sleep;
\* it returns the value of the first read that is accepted, and when neither
\* read is accepted it fails with the "failed read" (NoReply) error.
C6_ReadCycles ==
  fr.fn = "getVCP" =>
    /\ Len(fr.reads) <= 2
    /\ \A k \in 1..Len(fr.reads) : fr.reads[k].slept
    /\ \A k \in 1..(Len(fr.reads) - 1) : fr.reads[k].out.kind = "none"
    /\ GetOver =>
         LET last == fr.reads[Len(fr.reads)].out
         IN  \/ last.kind = "value" /\ pc # "exit" /\ result = RetValue(last.value)
             \/ /\ last.kind = "none" /\ Len(fr.reads) = 2
                /\ pc # "exit" /\ result = RetErr("failed read")

\* What holds of the read cycles when the crash is set apart: C6 with a
\* third outcome, the process dying in the parse of a read.
ReadCyclesOrCrash ==
  fr.fn = "getVCP" =>
    /\ Len(fr.reads) <= 2
    /\ \A k \in 1..Len(fr.reads) : fr.reads[k].slept
    /\ \A k \in 1..(Len(fr.reads) - 1) : fr.reads[k].out.kind = "none"
    /\ GetOver =>
         LET last == fr.reads[Len(fr.reads)].out
         IN  \/ last.kind = "value" /\ pc # "exit" /\ result = RetValue(last.value)
             \/ /\ last.kind = "none" /\ Len(fr.reads) = 2
                /\ pc # "exit" /\ result = RetErr("failed read")
             \/ last.kind = "panic" /\ pc = "exit" /\ exitCode = 2

\* ------------------------------------------------------------ handles
\* The statements at which a call holds its handle.
HandlePcs ==
  {"gm_ioctl", "gm_read", "sv_ioctl", "sv_write", "gv_ioctl", "gv_write", "gv_loop",
   "gv_read"}

\* C9: at most one handle is open; a handle is open only inside the call
\* that opened it and is closed when that call has returned, whatever the
\* exit path; between two steps of a preset no handle is open.
C9_Handles ==
  /\ Cardinality(handles) <= 1
  /\ pc \notin HandlePcs => handles = {}
  /\ pc \in HandlePcs => \A h \in handles : h.id = fr.f /\ h.bus = fr.bus

\* C9 witness: between two steps of a preset, after a step whose three
\* writes failed, with no handle open.
C9_Witness ==
  /\ pc = "preset_step" /\ oi >= 2
  /\ result.err \in WriteErrors
  /\ handles = {}
  /\ target.bus \in opened

\* The slave a call must talk to.
SlaveOf(fn) == IF fn = "getMonitorName" THEN 80 ELSE 55

\* What each handle did, open or closed.
HandleHistories == iolog \cup {Summary(fr.fn, h) : h \in handles}

\* C10: every read and write on a handle happens after the handle was
\* addressed to its call's slave (0x50 for getMonitorName, 0x37 for setVCP
\* and getVCP); a handle whose addressing failed or has not happened sees no
\* read and no write.
C10_AddressedFirst ==
  /\ \A s \in HandleHistories :
       /\ \A x \in s.io : x.addr = SlaveOf(s.fn)
       /\ s.addr \in {0, SlaveOf(s.fn)}
       /\ s.addr = 0 => s.io = {}
  /\ pc \in {"gm_read", "sv_write", "gv_write", "gv_loop", "gv_read"} =>
       \E h \in handles : h.id = fr.f /\ h.addr = SlaveOf(fr.fn)

\* C10 witness: one call's addressing failed and it did no I/O; a setVCP
\* and a getVCP call wrote and read on addressed handles.
C10_Witness ==
  /\ \E s \in iolog : s.addr = 0 /\ s.io = {}
  /\ \E s \in iolog : s.fn = "setVCP" /\ [op |-> "write", addr |-> 55] \in s.io
  /\ \E s \in iolog : s.fn = "getVCP" /\ [op |-> "read", addr |-> 55] \in s.io

\* ============================================ the reply parse, on its own
\* Replies are explored as the bytes of a filler with up to MaxMarked bytes
\* of the alphabet placed anywhere: the marker 0x02, the requested code, the
\* address byte 0x6E.
MaxMarked == 3
ShortestReply == MinReplyLen - 1
ReplyAlphabet(vcp) == {2, vcp, 110}
ReplyFillers == {0, 2}
ReplyVcps == {96}

Marked(in) == Cardinality({k \in 1..Len(in.bytes) : in.bytes[k] # in.filler})

\* A read delivered n bytes of filler.
InitReply ==
  /\ \E n \in ShortestReply..ReplyBufLen, v \in ReplyVcps, f \in ReplyFillers :
       fnIn = [fn |-> "ParseReply", vcp |-> v, filler |-> f, bytes |-> [k \in 1..n |-> f]]
  /\ fnOut = NoValue
  /\ pc = "reply_build"
  /\ args = NoArgs
  /\ configs = <<>>
  /\ world = World("none", "none")
  /\ Idle

\* One more byte of the reply differs from the filler.
PlaceByte ==
  /\ pc = "reply_build"
  /\ Marked(fnIn) < MaxMarked
  /\ \E k \in 1..Len(fnIn.bytes), b \in ReplyAlphabet(fnIn.vcp) :
       /\ fnIn.bytes[k] = fnIn.filler
       /\ b # fnIn.filler
       /\ fnIn' = [fnIn EXCEPT !.bytes[k] = b]
  /\ UNCHANGED <<fnOut, args, configs, world, pc, ret, fr, result, handles, nextFd,
                 busIdx, devices, target, order, oi, pending, code, trace, iolog,
                 opened, faults, stderr, exitCode>>

\* getVCP, lines 121-132, on the reply as read without error.
ParseStep ==
  /\ pc = "reply_build"
  /\ fnOut' = ParseReply(ReplyBuf(fnIn.bytes), Len(fnIn.bytes), TRUE, fnIn.vcp)
  /\ pc' = "reply_parsed"
  /\ UNCHANGED <<fnIn, args, configs, world, ret, fr, result, handles, nextFd,
                 busIdx, devices, target, order, oi, pending, code, trace, iolog,
                 opened, faults, stderr, exitCode>>

NextReply == PlaceByte \/ ParseStep

SpecReply == InitReply /\ [][NextReply]_vars

\* The reply's offsets (Go's, from 0) that show the marker pattern with
\* the two value offsets inside the n bytes received.
MarkersInside(bytes, vcp) ==
  {i \in 0..(Len(bytes) - 8) : bytes[i + 1] = 2 /\ bytes[i + 3] = vcp}

\* C7: a reply of n >= 10 bytes with the marker 0x02 at an offset i, the
\* requested code at i+2 and the offsets i+6, i+7 inside the reply is
\* accepted with the big-endian value at i0+6, i0+7, i0 the smallest offset
\* showing the marker pattern, whatever the first byte is; a value taken
\* from the fallback offsets 8, 9 of a 0x6E-led reply is returned only when
\* the scan found no marker.
C7_MarkerFirst ==
  pc = "reply_parsed" =>
    LET b == fnIn.bytes
        n == Len(b)
        inside == MarkersInside(b, fnIn.vcp)
        scanned == {i \in 0..(n - 6) : b[i + 1] = 2 /\ b[i + 3] = fnIn.vcp}
    IN  /\ (n >= 10 /\ inside # {}) =>
             LET i0 == Min({i \in 0..(n - 3) : b[i + 1] = 2 /\ b[i + 3] = fnIn.vcp})
             IN  fnOut = Value(b[i0 + 7] * 256 + b[i0 + 8])
        /\ (n >= 10 /\ scanned = {} /\ b[1] = 110) =>
             fnOut = Value(b[9] * 256 + b[10])
        /\ (fnOut.kind = "value" /\ scanned # {}) =>
             LET i0 == Min(scanned)
                 buf == ReplyBuf(b)
             IN  fnOut.value = buf[i0 + 7] * 256 + buf[i0 + 8]

\* C7 witness: a 0x6E-led reply with two markers whose values differ from
\* each other and from the fallback's: the first marker's value is returned.
C7_Witness ==
  /\ pc = "reply_parsed"
  /\ fnIn.bytes[1] = 110
  /\ Cardinality(MarkersInside(fnIn.bytes, fnIn.vcp)) >= 2
  /\ LET b == fnIn.bytes
         i0 == Min(MarkersInside(b, fnIn.vcp))
     IN  /\ fnOut = Value(b[i0 + 7] * 256 + b[i0 + 8])
         /\ fnOut.value # b[9] * 256 + b[10]
         /\ \E i \in MarkersInside(b, fnIn.vcp) :
              b[i + 7] * 256 + b[i + 8] # fnOut.value

\* The reply P with the address byte 0x6E put in front.
Prefixed(bytes) == <<110>> \o bytes

ParseOf(bytes, vcp) == ParseReply(ReplyBuf(bytes), Len(bytes), TRUE, vcp)

\* C8 as stated: every accepted payload P of 10 to 15 bytes is accepted
\* with the same value when 0x6E is put in front of it.
C8_PrefixSameValue ==
  (pc = "reply_parsed" /\ Len(fnIn.bytes) >= 10 /\ Len(fnIn.bytes) <= 15
     /\ fnOut.kind = "value")
    => ParseOf(Prefixed(fnIn.bytes), fnIn.vcp) = fnOut

\* C8 (amended): every payload P of 10 to 15 bytes that the marker scan
\* accepts with its two value bytes inside P is accepted, again by the
\* marker scan, with the same value when 0x6E is put in front of it.
C8_MarkerPrefixSameValue ==
  (pc = "reply_parsed" /\ Len(fnIn.bytes) >= 10 /\ Len(fnIn.bytes) <= 15
     /\ MarkersInside(fnIn.bytes, fnIn.vcp) # {})
    => LET b == fnIn.bytes
           i0 == Min(MarkersInside(b, fnIn.vcp))
           q == Prefixed(b)
       IN  /\ fnOut = Value(b[i0 + 7] * 256 + b[i0 + 8])
           /\ ParseOf(q, fnIn.vcp) = fnOut
           /\ Min(MarkersInside(q, fnIn.vcp)) = i0 + 1

\* C8 witness: a marker-layout payload without the address byte whose
\* value bytes are not both filler was parsed.
C8_Witness ==
  /\ pc = "reply_parsed" /\ Len(fnIn.bytes) >= 10 /\ Len(fnIn.bytes) <= 15
  /\ fnIn.bytes[1] # 110
  /\ MarkersInside(fnIn.bytes, fnIn.vcp) # {}
  /\ fnOut.kind = "value" /\ fnOut.value = 110 * 256 + 110
  /\ ParseOf(Prefixed(fnIn.bytes), fnIn.vcp) = fnOut

\* ======================================= the EDID name scan, on its own
\* Blocks are explored as the zero block with descriptors put into the four
\* 18-byte slots and a text put into the vendor area.
EdidSlots == {54, 72, 90, 108}
EdidNames == {N_LG, N_DELL_P2419H, <<>>}
EdidTexts == {N_DELL, N_U4021QW}
TextAt == 20
SerialTag == 255

PutBytes(edid, at, bytes) ==
  [k \in 1..EdidLen |->
     IF k > at /\ k <= at + Len(bytes) THEN bytes[k - at] ELSE edid[k]]

\* The 18 bytes of a display-name descriptor for name.
NameDesc(name) == Slice(MkEdid(54, name), 54, 54 + DescLen)

\* The 18 bytes of a serial-number descriptor (tag 0xFF) holding the text.
SerialDesc(name) == [NameDesc(name) EXCEPT ![4] = SerialTag]

SlotFree(edid, j) == \A k \in (j + 1)..(j + DescLen) : edid[k] = 0

\* f.Read filled the 128 bytes with zeros.
InitEdid ==
  /\ fnIn = [fn |-> "EdidName", edid |-> MkEdid(0, <<>>)]
  /\ fnOut = <<>>
  /\ pc = "edid_build"
  /\ args = NoArgs
  /\ configs = <<>>
  /\ world = World("none", "none")
  /\ Idle

\* A free slot of the block holds a name or a serial-number descriptor.
PlaceDesc ==
  /\ pc = "edid_build"
  /\ \E j \in EdidSlots, name \in EdidNames, d \in {"name", "serial"} :
       /\ SlotFree(fnIn.edid, j)
       /\ fnIn' = [fnIn EXCEPT !.edid =
                     PutBytes(@, j, IF d = "name" THEN NameDesc(name)
                                    ELSE SerialDesc(name))]
  /\ UNCHANGED <<fnOut, args, configs, world, pc, ret, fr, result, handles, nextFd,
                 busIdx, devices, target, order, oi, pending, code, trace, iolog,
                 opened, faults, stderr, exitCode>>

\* The vendor area of the block holds a text.
PlaceText ==
  /\ pc = "edid_build"
  /\ fnIn.edid[TextAt + 1] = 0
  /\ \E t \in EdidTexts : fnIn' = [fnIn EXCEPT !.edid = PutBytes(@, TextAt, t)]
  /\ UNCHANGED <<fnOut, args, configs, world, pc, ret, fr, result, handles, nextFd,
                 busIdx, devices, target, order, oi, pending, code, trace, iolog,
                 opened, faults, stderr, exitCode>>

\* getMonitorName, lines 154-169, on the block as read without error.
NameStep ==
  /\ pc = "edid_build"
  /\ fnOut' = EdidName(fnIn.edid)
  /\ pc' = "edid_named"
  /\ UNCHANGED <<fnIn, args, configs, world, ret, fr, result, handles, nextFd,
                 busIdx, devices, target, order, oi, pending, code, trace, iolog,
                 opened, faults, stderr, exitCode>>

NextEdid == PlaceDesc \/ PlaceText \/ NameStep

SpecEdid == InitEdid /\ [][NextEdid]_vars

\* The slots among S that begin with 0x00 0x00 0x00 0xFC.
NameSlots(edid, S) == {j \in S : IsNameDesc(edid, j)}

\* The trimmed trailing 13 bytes of slot j.
SlotName(edid, j) == TrimSpace(Slice(edid, j + 5, j + DescLen))

\* C11: whenever one of the four slots 54, 72, 90, 108 begins with
\* 0x00 0x00 0x00 0xFC, the name returned is the trimmed trailing 13 bytes of
\* the first such slot, whichever of the four it is.
C11_FourSlots ==
  (pc = "edid_named" /\ NameSlots(fnIn.edid, EdidSlots) # {})
    => fnOut = SlotName(fnIn.edid, Min(NameSlots(fnIn.edid, EdidSlots)))

\* What holds of the scan: when one of the slots 54, 72, 90 is a name
\* descriptor with a name that is not blank, that name is returned.
ThreeSlotsScanned ==
  LET S == NameSlots(fnIn.edid, EdidSlots \ {108})
  IN  (pc = "edid_named" /\ S # {} /\ SlotName(fnIn.edid, Min(S)) # <<>>)
        => fnOut = SlotName(fnIn.edid, Min(S))

\* ===================================== the label resolution, on its own
\* One feature, input_source, with one configured value label; the
\* configured label and the requested one are typed letter by letter, in
\* either case, up to MaxLabel letters.
MaxLabel == 2
LabelLetters == {100, 68, 112, 80}
AskedFeatures == {"input_source", "brightness"}

\* The configuration list holding the one feature with the one label.
CfgKeyed(key) ==
  <<[model |-> N_P2419, match |-> N_P2419,
     features |-> Map1("input_source", [vcp |-> H_0x60, values |-> Map1(key, H_0x0f)]),
     presets |-> Map1("work", Map1("input_source", key))]>>

ConfiguredLabel == CHOOSE k \in DOMAIN configs[1].features["input_source"].values : TRUE

NoResolved == [err |-> "", vcp |-> 0, value |-> 0]

\* loadConfigs returned the list; a request names a feature.
InitResolve ==
  /\ \E f \in AskedFeatures : fnIn = [fn |-> "resolve", feat |-> f, label |-> <<>>]
  /\ fnOut = NoResolved
  /\ pc = "resolve_build"
  /\ args = NoArgs
  /\ configs = CfgKeyed(<<>>)
  /\ world = World("none", "none")
  /\ Idle

\* One more letter of the label in monitors.json.
ConfigLetter ==
  /\ pc = "resolve_build"
  /\ Len(ConfiguredLabel) < MaxLabel
  /\ \E c \in LabelLetters : configs' = CfgKeyed(Append(ConfiguredLabel, c))
  /\ UNCHANGED <<fnIn, fnOut, args, world, pc, ret, fr, result, handles, nextFd,
                 busIdx, devices, target, order, oi, pending, code, trace, iolog,
                 opened, faults, stderr, exitCode>>

\* One more letter of the label on the command line.
AskedLetter ==
  /\ pc = "resolve_build"
  /\ Len(fnIn.label) < MaxLabel
  /\ \E c \in LabelLetters : fnIn' = [fnIn EXCEPT !.label = Append(@, c)]
  /\ UNCHANGED <<fnOut, args, configs, world, pc, ret, fr, result, handles, nextFd,
                 busIdx, devices, target, order, oi, pending, code, trace, iolog,
                 opened, faults, stderr, exitCode>>

\* applyFeature, lines 234-245, for a target bound to the config.
ResolveStep ==
  /\ pc = "resolve_build"
  /\ fnOut' = resolve([NoTarget EXCEPT !.cfg = 1], fnIn.feat, fnIn.label)
  /\ pc' = "resolved"
  /\ UNCHANGED <<fnIn, args, configs, world, ret, fr, result, handles, nextFd,
                 busIdx, devices, target, order, oi, pending, code, trace, iolog,
                 opened, faults, stderr, exitCode>>

NextResolve == ConfigLetter \/ AskedLetter \/ ResolveStep

SpecResolve == InitResolve /\ [][NextResolve]_vars

\* Equal but for the case of the letters.
SameFolded(a, b) == ToLower(a) = ToLower(b)

\* C12: an absent feature name gives UnknownFeature; otherwise the lookup
\* succeeds exactly when a configured label equals the requested label
\* ignoring letter case, whatever the case of either, and gives
\* UnknownValue when none does.
C12_CaseInsensitive ==
  pc = "resolved" =>
    IF fnIn.feat \notin DOMAIN configs[1].features
      THEN fnOut.err = "feature not defined"
      ELSE LET labels == DOMAIN configs[1].features[fnIn.feat].values
           IN  IF \E k \in labels : SameFolded(k, fnIn.label)
                 THEN fnOut.err = "ok"
                 ELSE fnOut.err = "invalid value"

\* What holds of the lookup: C12 for the configured labels that are
\* written in lower case.
LowerCaseLabelsFound ==
  (pc = "resolved" /\ fnIn.feat \in DOMAIN configs[1].features
     /\ \A k \in DOMAIN configs[1].features[fnIn.feat].values : ToLower(k) = k)
    => LET labels == DOMAIN configs[1].features[fnIn.feat].values
       IN  fnOut.err = IF \E k \in labels : SameFolded(k, fnIn.label)
                         THEN "ok" ELSE "invalid value"

\* ============================================ the hex parse, on its own
\* Strings are typed character by character from 0, 1, f, F, x and g, up to
\* MaxHex characters, and parsed as a byte (parseHex) or as 16 bits
\* (parseHex16).
MaxHex == 4
HexChars == {48, 49, 102, 70, 120, 103}
HexWidths == {8, 16}

\* A vcp or value string of monitors.json is about to be parsed.
InitHex ==
  /\ \E w \in HexWidths : fnIn = [fn |-> "parseHex", bits |-> w, s |-> <<>>]
  /\ fnOut = 0
  /\ pc = "hex_build"
  /\ args = NoArgs
  /\ configs = <<>>
  /\ world = World("none", "none")
  /\ Idle

\* One more character of the string.
HexChar ==
  /\ pc = "hex_build"
  /\ Len(fnIn.s) < MaxHex
  /\ \E c \in HexChars : fnIn' = [fnIn EXCEPT !.s = Append(@, c)]
  /\ UNCHANGED <<fnOut, args, configs, world, pc, ret, fr, result, handles, nextFd,
                 busIdx, devices, target, order, oi, pending, code, trace, iolog,
                 opened, faults, stderr, exitCode>>

\* parseHex, lines 55-62, or parseHex16, lines 64-71: the value returned.
HexStep ==
  /\ pc = "hex_build"
  /\ fnOut' = IF fnIn.bits = 8 THEN parseHex(fnIn.s) ELSE parseHex16(fnIn.s)
  /\ pc' = "hex_parsed"
  /\ UNCHANGED <<fnIn, args, configs, world, ret, fr, result, handles, nextFd,
                 busIdx, devices, target, order, oi, pending, code, trace, iolog,
                 opened, faults, stderr, exitCode>>

NextHex == HexChar \/ HexStep

SpecHex == InitHex /\ [][NextHex]_vars

\* The reference parser: an optional 0x, then one or more hex digits whose
\* number fits the width; anything else is an error.
HexError == 0 - 1
HexBody(s) ==
  IF Len(s) >= 2 /\ s[1] = 48 /\ s[2] = 120 THEN SubSeq(s, 3, Len(s)) ELSE s
ValidHex(s, bits) ==
  /\ HexBody(s) # <<>>
  /\ \A k \in 1..Len(HexBody(s)) : IsHexDigit(HexBody(s)[k])
  /\ 4 * Len(StripZeros(HexBody(s))) <= bits
ReferenceHex(s, bits) ==
  IF ValidHex(s, bits) THEN HexNumber(StripZeros(HexBody(s))) ELSE HexError

\* C13: parseHex and parseHex16 agree with the reference parser on every
\* string: the value of a valid hex string, with or without 0x, and an
\* error, which is not the value zero, for any other string.
C13_AgreesWithReference ==
  pc = "hex_parsed" => fnOut = ReferenceHex(fnIn.s, fnIn.bits)

\* What holds of the parse: the value of every valid hex string is the
\* reference's, and every other string gives a value too, never an error.
ValidHexParsed ==
  pc = "hex_parsed" =>
    /\ ValidHex(fnIn.s, fnIn.bits) => fnOut = ReferenceHex(fnIn.s, fnIn.bits)
    /\ fnOut \in 0..(2 ^ fnIn.bits - 1)

\* ================================================ setVCP, on its own
\* setVCP is called with codes and values from the ends and the middle of
\* their ranges; the bus may fail up to MaxFaults times.
FrameVcps == {0, 96, 233, 255}
FrameBytes == {0, 1, 15, 128, 255}

\* A caller is about to enter setVCP(bus, vcp, value).
InitFrame ==
  /\ \E v \in FrameVcps, hi \in FrameBytes, lo \in FrameBytes :
       /\ fnIn = [fn |-> "setVCP", vcp |-> v, value |-> hi * 256 + lo]
       /\ fr = [NoFrame EXCEPT !.fn = "setVCP", !.bus = Buses[1], !.vcp = v,
                               !.value = hi * 256 + lo, !.feat = "direct"]
  /\ fnOut = NoValue
  /\ pc = "sv_open"
  /\ ret = "frame_done"
  /\ args = NoArgs
  /\ configs = <<>>
  /\ world = World("lg", "none")
  /\ result = NoResult
  /\ handles = {}
  /\ nextFd = 3
  /\ busIdx = 1
  /\ devices = <<>>
  /\ target = NoTarget
  /\ order = <<>>
  /\ oi = 1
  /\ pending = {}
  /\ code = 0
  /\ trace = <<>>
  /\ iolog = {}
  /\ opened = {}
  /\ faults = 0
  /\ stderr = <<>>
  /\ exitCode = Running

NextFrame == SvOpen \/ SvIoctl \/ SvWrite \/ SvGiveUp

SpecFrame == InitFrame /\ [][NextFrame]_vars

\* Bit k of the byte b.
BitOf(b, k) == (b \div (2 ^ k)) % 2

\* The byte whose bit k is the parity of bit k over 0x6E and the bytes of d.
RECURSIVE OnesAt(_, _)
OnesAt(d, k) == IF d = <<>> THEN 0 ELSE BitOf(Head(d), k) + OnesAt(Tail(d), k)
RECURSIVE ParityByte(_, _)
ParityByte(d, k) ==
  IF k > 7 THEN 0
  ELSE ((BitOf(110, k) + OnesAt(d, k)) % 2) * (2 ^ k) + ParityByte(d, k + 1)

\* The frame of the protocol for a code and a value.
ExpectedSet(vcp, value) ==
  LET six == <<81, 132, 3, vcp, value \div 256, value % 256>>
  IN  six \o <<ParityByte(six, 0)>>

\* The frames written so far, in order.
FramesWritten ==
  LET w == SelectSeq(trace, LAMBDA e : e.ev = "write")
  IN  [k \in 1..Len(w) |-> w[k].data]

FailedCalls ==
  {q \in Positions("call") : trace[EndOf(q)].res # "ok"}

\* The run made no preset request: its applyFeature calls are those of
\* -input and -pbp.
SingleFeatureRun == args.preset = "" /\ (args.input # <<>> \/ args.pbp # <<>>)

\* C15: when a single-feature request ends in an error (no config bound,
\* unknown feature, unknown value label, write retries exhausted), the error
\* is reported and the process ends with a failure exit status.
C15_ErrorsSurface ==
  (pc = "exit" /\ SingleFeatureRun /\ FailedCalls # {})
    => (stderr # <<>> /\ exitCode # 0)

\* What holds of these requests: whatever applyFeature returned, nothing is
\* reported and the run ends with status 0, unless a later status read
\* crashes.
SingleFeatureErrorsDropped ==
  (pc = "exit" /\ SingleFeatureRun /\ target # NoTarget /\ exitCode # 2)
    => (stderr = <<>> /\ exitCode = 0)

\* --------------------------------------------------------- bus override
\* A bus path was given with -bus or MONITOR_BUS.
BusOverride == args.bus # ""

\* C16: with a bus-path override discovery is bypassed: no bus other than
\* the overriding one is opened or probed for EDID during the run.
C16_OnlyOverrideOpened ==
  BusOverride => opened \subseteq {args.bus}

\* What holds of such a run: every bus of the glob is opened and probed
\* for EDID before the target is chosen.
OverrideStillDiscovers ==
  (BusOverride /\ pc \notin {"main", "disc_loop", "gm_open", "gm_ioctl", "gm_read", "disc_ret"})
    => \A k \in 1..Len(Buses) : Buses[k] \in opened

\* ------------------------------------------------------ config binding
\* The target was identified by discovery and no configuration entry's
\* match occurs in its name.
Unmatched ==
  /\ target # NoTarget
  /\ \E k \in 1..Len(devices) : devices[k].bus = target.bus /\ devices[k].name = target.name
  /\ \A i \in 1..Len(configs) : ~Contains(ToUpper(target.name), ToUpper(configs[i].match))

NoConfigMatched == "Error: No config matched for monitor"

\* C17: a device is bound to a config by substring match only: a preset
\* request for an identified display that no entry matches fails with
\* NoConfigMatched and writes nothing to the bus.
C17_UnmatchedPresetFails ==
  (args.preset # "" /\ Unmatched) =>
    /\ Positions("write") = {}
    /\ target.cfg = 0
    /\ pc = "exit" => (exitCode = 1 /\ stderr = <<NoConfigMatched>>)

\* What holds of the binding: an unmatched display stays without a config
\* only when no configuration was loaded at all or the display was chosen
\* by a bus override, and then the preset request fails with
\* NoConfigMatched without a write; otherwise it gets the first config.
UnmatchedGetsFirstConfig ==
  (args.preset # "" /\ Unmatched) =>
    /\ target.cfg = (IF configs = <<>> \/ BusOverride THEN 0 ELSE 1)
    /\ (target.cfg = 0 /\ pc = "exit") =>
         (exitCode = 1 /\ stderr = <<NoConfigMatched>> /\ Positions("write") = {})

\* -------------------------------------------------- reply: index range
\* The offsets the parse of the reply under study indexes.
ReadsOfReply == ReplyReads(ReplyBuf(fnIn.bytes), Len(fnIn.bytes), TRUE, fnIn.vcp)

\* C18: for every reply of 10 to 16 bytes the marker scan and the value
\* extraction index only offsets below the number of bytes received: no
\* index is out of range and no value is built from bytes that were not
\* received.
C18_ReadsInsideReply ==
  (pc = "reply_parsed" /\ Len(fnIn.bytes) >= 10) =>
    /\ \A o \in ReadsOfReply : o < Len(fnIn.bytes)
    /\ fnOut.kind # "panic"

\* What holds of the indexes: the scan and the fallback stay inside the
\* reply; only the two value offsets of a marker found in the last seven
\* scanned offsets leave it, and the process dies exactly when one of them
\* leaves the 16-byte buffer.
OnlyLateMarkerLeaves ==
  (pc = "reply_parsed" /\ Len(fnIn.bytes) >= 10) =>
    LET n == Len(fnIn.bytes)
        hits == {i \in 0..(n - 6) : fnIn.bytes[i + 1] = 2 /\ fnIn.bytes[i + 3] = fnIn.vcp}
    IN  /\ \A o \in ReadsOfReply :
             o >= n => (hits # {} /\ Min(hits) >= n - 7 /\ o \in {Min(hits) + 6, Min(hits) + 7})
        /\ fnOut.kind = "panic" <=> (\E o \in ReadsOfReply : o >= ReplyBufLen)

\* ------------------------------------------------ preset: sub input
\* The applyFeature call that the event at position w belongs to.
CallOf(w) == CHOOSE q \in Positions("call") : q < w /\ \A r \in Positions("call") : r < w => r <= q

\* The frame writes made for the feature feat, as positions of the trace.
WritesFor(feat) == {w \in Positions("write") : trace[CallOf(w)].feat = feat}

\* C19: in a preset application a pbp_sub_input write is issued only after
\* a pbp_mode write with a label other than off, made after the reset, for
\* every preset, also one that defines pbp_sub_input but no pbp_mode.
C19_SubInputWhilePbpOn ==
  args.preset # "" =>
    \A w \in WritesFor("pbp_sub_input") :
      \E v \in WritesFor("pbp_mode") :
        /\ v < w
        /\ ToLower(trace[CallOf(v)].label) # L_off

\* What holds of the order: when the preset defines pbp_mode, the call for
\* it comes before the call for pbp_sub_input, whatever its label and its
\* outcome; a preset without pbp_mode gets the reset and no other pbp_mode
\* call.
PbpCallBeforeSubInput ==
  (args.preset # "" /\ target.cfg # 0 /\ args.preset \in DOMAIN configs[target.cfg].presets) =>
    \A q \in Positions("call") :
      trace[q].feat = "pbp_sub_input" =>
        IF "pbp_mode" \in DOMAIN Preset
          THEN \E r \in Positions("call") :
                 r < q /\ r > 1 /\ trace[r].feat = "pbp_mode"
                   /\ trace[r].label = Preset["pbp_mode"]
          ELSE \A r \in Positions("call") :
                 (r < q /\ trace[r].feat = "pbp_mode") => (r = 1 /\ trace[r].label = L_off)

\* ============================================ preset runs, to their end
\* The runs that ask for a preset and nothing else.
PresetRuns ==
  {s \in Scenarios : s.args.preset # "" /\ s.args.bus = "" /\ Len(s.configs) = 2}

InitPreset ==
  /\ \E s \in PresetRuns :
       /\ args = s.args
       /\ configs = s.configs
       /\ world = s.world
  /\ pc = "main"
  /\ fnIn = NoInput
  /\ fnOut = NoValue
  /\ Idle

\* The statements such a run can reach.
NextPreset ==
  \/ DiscoverStart \/ DiscoverNext \/ GmOpen \/ GmIoctl \/ GmRead
  \/ DiscoverRet \/ Select \/ ScanStart
  \/ PresetStart \/ PresetReset \/ PresetNext \/ PresetStepRet
  \/ ApplyFeature \/ SvOpen \/ SvIoctl \/ SvWrite \/ SvGiveUp
  \/ MainInput \/ MainPbp \/ MainStatus

\* The process keeps running: every system call returns, with a result or
\* an error, and the next statement is executed.
SpecPreset == InitPreset /\ [][NextPreset]_vars /\ WF_vars(NextPreset)

\* The applyFeature calls made so far for the feature feat.
CallsFor(feat) == {q \in Positions("call") : trace[q].feat = feat}

\* The fixed budget: at most 5 applyFeature calls, the reset and one per
\* ordered feature, none repeated, and at most 3 frame writes in each.
WithinBudget ==
  /\ Cardinality(Positions("call")) <= 5
  /\ \A q \in Positions("call") : Len(WritesOf(q)) <= 3
  /\ \A f \in {"input_source", "pbp_sub_input", "usb_selection"} :
       Cardinality(CallsFor(f)) <= 1
  /\ Cardinality(CallsFor("pbp_mode")) <= 2
  /\ Cardinality(CallsFor("pbp_mode")) = 2 =>
       (1 \in CallsFor("pbp_mode") /\ trace[1].label = L_off /\ order = OrderPbp)

\* C20: preset application always terminates, whatever the bus answers: it
\* is over once the last feature of the order has been attempted, after at
\* most 5 feature calls (the reset and 4 ordered features) of at most 3
\* frame writes each, none repeated and none undone.
C20_PresetTerminates ==
  /\ [](WithinBudget /\ (PresetOver => oi = Len(order) + 1))
  /\ (InPresetPhase ~> PresetOver)
  /\ <>(pc = "exit")

\* C20 witness: a preset of four features was applied in 5 calls, one of
\* them after three failed writes, and the run has ended.
C20_Witness ==
  /\ pc = "exit" /\ PresetOver
  /\ Cardinality(Positions("call")) = 5
  /\ \E q \in Positions("call") :
       Len(WritesOf(q)) = 3 /\ trace[EndOf(q)].res # "ok"
  /\ \E q \in Positions("call") : trace[EndOf(q)].res = "ok"

====
